---- MODULE Spec2Model ----
(***************************************************************************)
(* Model of LOOT's CEF query dispatch, src/gui/cef/query/query_handler.cpp *)
(*                                                                         *)
(*   QueryHandler::OnQuery      the dispatcher ("handle")                  *)
(*   QueryHandler::createQuery  the decoder and the command factory        *)
(*                                                                         *)
(* A request is a YAML::Node tree (JSON::parse returns one).  Nodes are    *)
(* records tagged by `type`; typed extraction (as<T>) and subscripting     *)
(* (operator[]) return either a value or a thrown exception.  The handler  *)
(* runs on the thread that received the request; Query::execute runs on    *)
(* the FILE thread, fed by CefPostTask's FIFO task queue.                  *)
(***************************************************************************)
EXTENDS Integers, Sequences, FiniteSets, TLC

VARIABLES
    requests,     \* requests[i]: the request string OnQuery call i received
    results,      \* results[i]: how OnQuery call i ended, and what createQuery did
    callbacks,    \* callbacks[i]: the calls made on the Callback of request i, in order
    taskQueue,    \* tasks posted to TID_FILE and not yet started (FIFO)
    fileThread,   \* the task the FILE thread is running (a sequence of length <= 1)
    executions,   \* executions[i]: the Query::execute calls run with the Callback of request i
    argumentOrder \* the order in which the build evaluates the arguments of a call

vars == <<requests, results, callbacks, taskQueue, fileThread, executions,
          argumentOrder>>

(***************************************************************************)
(* Bounds                                                                  *)
(***************************************************************************)
\* The number of OnQuery calls in a behaviour of Spec and LiveSpec.
MaxRequests == 2
\* The requests sent in one behaviour of ReplaySpec.
MaxReplayRequests == 3

(***************************************************************************)
(* YAML::Mark                                                              *)
(***************************************************************************)
Mark(l, c) == [line |-> l, column |-> c]

\* YAML::Mark::null_mark(): pos = line = column = -1.
null_mark == Mark(0 - 1, 0 - 1)

is_null(mark) == mark.line = 0 - 1 /\ mark.column = 0 - 1

(***************************************************************************)
(* YAML::Node                                                              *)
(***************************************************************************)
\* A node that was subscripted into existence and never assigned: it has
\* no mark.
Undefined == [type |-> "Undefined", mark |-> null_mark]

Scalar(s, m) == [type |-> "Scalar", scalar |-> s, mark |-> m]

Sequence(q, m) == [type |-> "Sequence", seq |-> q, mark |-> m]

\* f is a function from key strings to nodes.
Map(f, m) == [type |-> "Map", map |-> f, mark |-> m]

(***************************************************************************)
(* Exceptions.  class is the dynamic type, mark and msg the members of     *)
(* YAML::Exception.                                                        *)
(***************************************************************************)
Exception(c, m, s) == [class |-> c, mark |-> m, msg |-> s]

\* The classes derived from YAML::RepresentationException (itself included).
RepresentationExceptions ==
    {"YAML::RepresentationException", "YAML::BadSubscript",
     "YAML::TypedBadConversion", "YAML::InvalidNode"}

\* The classes derived from std::exception: every YAML::Exception is a
\* std::runtime_error.
StdExceptions == RepresentationExceptions \cup {"YAML::ParserException"}

\* YAML::Exception::what(), as build_what makes it: the bare msg for a null
\* mark, else msg behind the position.
what(e) ==
    IF is_null(e.mark)
    THEN <<e.msg>>
    ELSE <<"yaml-cpp: error at line ", e.mark.line + 1, ", column ",
           e.mark.column + 1, ": ", e.msg>>

\* The result of an expression that may throw.
Ok(v) == [ok |-> TRUE, val |-> v]
Throw(e) == [ok |-> FALSE, exc |-> e]

\* r, then F on its value; an exception thrown by r passes through.
Then(r, F(_)) == IF r.ok THEN F(r.val) ELSE r

BAD_SUBSCRIPT == "operator[] call on a scalar"
BAD_CONVERSION == "bad conversion"

\* node[key] for a string key, on a non-const Node: a scalar cannot be
\* subscripted; a missing key yields an undefined node.
GetKey(node, key) ==
    CASE node.type = "Scalar" ->
           Throw(Exception("YAML::BadSubscript", null_mark, BAD_SUBSCRIPT))
      [] node.type = "Map" ->
           Ok(IF key \in DOMAIN node.map THEN node.map[key] ELSE Undefined)
      [] OTHER -> Ok(Undefined)

\* node[i] for an integer index (from 0), on a non-const Node.
GetIdx(node, i) ==
    CASE node.type = "Scalar" ->
           Throw(Exception("YAML::BadSubscript", null_mark, BAD_SUBSCRIPT))
      [] node.type = "Sequence" ->
           Ok(IF i < Len(node.seq) THEN node.seq[i + 1] ELSE Undefined)
      [] OTHER -> Ok(Undefined)

\* node.as<std::string>(): the text of a scalar, whatever it spells.
AsString(node) ==
    IF node.type = "Scalar"
    THEN Ok(node.scalar)
    ELSE Throw(Exception("YAML::TypedBadConversion", node.mark, BAD_CONVERSION))

\* The spellings convert<bool> accepts (y/n, yes/no, true/false, on/off in
\* lower, Capitalised or UPPER case), with the value each converts to.
TrueNames ==
    {"y", "Y", "yes", "Yes", "YES", "true", "True", "TRUE", "on", "On", "ON"}
FalseNames ==
    {"n", "N", "no", "No", "NO", "false", "False", "FALSE", "off", "Off", "OFF"}

\* node.as<bool>().
AsBool(node) ==
    IF node.type = "Scalar" /\ node.scalar \in TrueNames \cup FalseNames
    THEN Ok(node.scalar \in TrueNames)
    ELSE Throw(Exception("YAML::TypedBadConversion", node.mark, BAD_CONVERSION))

\* node.as<std::vector<std::string>>(): the node must be a sequence, and each
\* element is converted in order with as<std::string>; the first element
\* that is no scalar throws.
AsStringVector(node) ==
    IF node.type # "Sequence"
    THEN Throw(Exception("YAML::TypedBadConversion", node.mark, BAD_CONVERSION))
    ELSE LET bad == {i \in 1..Len(node.seq) : node.seq[i].type # "Scalar"}
         IN  IF bad = {}
             THEN Ok([i \in 1..Len(node.seq) |-> node.seq[i].scalar])
             ELSE LET first == CHOOSE i \in bad : \A j \in bad : i <= j
                  IN  AsString(node.seq[first])

(***************************************************************************)
(* Collaborators whose code is outside query_handler.cpp                   *)
(***************************************************************************)
\* A request string is either text that parses to the document `doc`, or
\* text that is not well-formed, on which the parser reports msg at mark.
Text(doc) == [syntax |-> "ok", doc |-> doc]
Malformed(m, s) == [syntax |-> "bad", mark |-> m, msg |-> s]

\* JSON::parse (gui/cef/query/json.h).
JSONparse(requestString) ==
    IF requestString.syntax = "ok"
    THEN Ok(requestString.doc)
    ELSE Throw(Exception("YAML::ParserException",
                         requestString.mark, requestString.msg))

\* node.as<PluginMetadata>(): the document must be a map with a scalar
\* `name`; the error carries the mark of the node that is at fault.
AsPluginMetadata(node) ==
    CASE node.type # "Map" ->
           Throw(Exception("YAML::RepresentationException", node.mark,
                 "bad conversion: 'plugin metadata' object must be a map"))
      [] node.type = "Map" /\ "name" \notin DOMAIN node.map ->
           Throw(Exception("YAML::RepresentationException", node.mark,
                 "bad conversion: 'name' key missing from 'plugin metadata' object"))
      [] OTHER ->
           Then(AsString(node.map["name"]), LAMBDA s : Ok([name |-> s]))

\* LootSettings::load(node): the settings document must be a map; the
\* fields it holds are extracted by type, the others keep their defaults.
load(node) ==
    CASE node.type = "Scalar" ->
           Throw(Exception("YAML::BadSubscript", null_mark, BAD_SUBSCRIPT))
      [] node.type # "Map" ->
           Throw(Exception("YAML::TypedBadConversion", node.mark, BAD_CONVERSION))
      [] OTHER ->
           LET game == IF "game" \in DOMAIN node.map
                       THEN AsString(node.map["game"]) ELSE Ok("auto")
               debug == IF "enableDebugLogging" \in DOMAIN node.map
                        THEN AsBool(node.map["enableDebugLogging"]) ELSE Ok(FALSE)
           IN  Then(debug, LAMBDA d :
               Then(game, LAMBDA g :
                   Ok([enableDebugLogging |-> d, game |-> g])))

(***************************************************************************)
(* QueryHandler::createQuery                                               *)
(***************************************************************************)
\* How a call of createQuery ends: a new Query, nullptr, or an exception.
\* constructed lists the Query objects the call built; caught lists the
\* exceptions it caught on the way.
Returned(q) == [kind |-> "query", query |-> q, constructed |-> <<q>>, caught |-> <<>>]
NullPtr == [kind |-> "nullptr", constructed |-> <<>>, caught |-> <<>>]
Thrown(e, c) == [kind |-> "throw", exc |-> e, constructed |-> <<>>, caught |-> c]

\* `return new Q(..., r)`: the argument expression r is evaluated first; if
\* it throws, no Query is built.
New(r, Q(_)) == IF r.ok THEN Returned(Q(r.val)) ELSE Thrown(r.exc, <<>>)

\* request["args"][i]
Arg(request, i) == Then(GetKey(request, "args"), LAMBDA a : GetIdx(a, i))

\* EditorClosedCatch with a plain `throw;`: the exception goes on as it is.
EditorClosedCatchRethrows(e) ==
    Thrown(e, IF e.class \in RepresentationExceptions THEN <<e>> ELSE <<>>)

\* The handler of the try block around the editorClosed extraction.
EditorClosedCatch(e) ==
    IF e.class \in RepresentationExceptions
    THEN Thrown(Exception("YAML::RepresentationException", null_mark, e.msg), <<e>>)
    ELSE Thrown(e, <<>>)

EditorClosed(request) ==
    LET arg == Arg(request, 0)
        applyEdits == Then(Then(arg, LAMBDA n : GetKey(n, "applyEdits")), AsBool)
        metadata == Then(Then(arg, LAMBDA n : GetKey(n, "metadata")), AsPluginMetadata)
    IN  CASE ~applyEdits.ok -> EditorClosedCatch(applyEdits.exc)
          [] applyEdits.ok /\ ~metadata.ok -> EditorClosedCatch(metadata.exc)
          [] OTHER -> Returned([type |-> "EditorClosedQuery",
                                applyEdits |-> applyEdits.val,
                                metadata |-> metadata.val])

\* CloseSettings building its Query around fresh settings before it loads
\* them from the node.
CloseSettingsNewFirst(request) ==
    LET node == Arg(request, 0)
        q == [type |-> "CloseSettingsQuery",
              settings |-> [enableDebugLogging |-> FALSE, game |-> "auto"]]
        settings == Then(node, load)
    IN  CASE ~node.ok -> [steps |-> <<>>] @@ Thrown(node.exc, <<>>)
          [] ~settings.ok ->
               [steps |-> <<"new", "load">>, constructed |-> <<q>>]
               @@ Thrown(settings.exc, <<>>)
          [] OTHER -> [steps |-> <<"new", "load">>] @@ Returned(q)

\* The closeSettings branch: the node, the settings loaded from it, then the
\* Query around the settings; steps lists the calls begun, in order.
CloseSettings(request) ==
    LET node == Arg(request, 0)
        settings == Then(node, load)
        steps == CASE ~node.ok -> <<>>
                   [] ~settings.ok -> <<"load">>
                   [] OTHER -> <<"load", "new">>
    IN  [steps |-> steps] @@
        New(settings, LAMBDA s : [type |-> "CloseSettingsQuery", settings |-> s])

\* The Query is built from the node itself: nothing is extracted from it.
CopyContent(request) ==
    New(Arg(request, 0), LAMBDA n : [type |-> "CopyContentQuery", content |-> n])

\* SaveFilterState reading its state from args[0].
SaveFilterStateWrongIndex(request, evalOrder) ==
    LET name == Then(Arg(request, 0), AsString)
        state == Then(Arg(request, 0), AsBool)
    IN  CASE name.ok /\ state.ok ->
               Returned([type |-> "SaveFilterStateQuery",
                         name |-> name.val, state |-> state.val])
          [] ~name.ok /\ state.ok -> Thrown(name.exc, <<>>)
          [] name.ok /\ ~state.ok -> Thrown(state.exc, <<>>)
          [] OTHER -> Thrown(IF evalOrder = "left" THEN name.exc ELSE state.exc, <<>>)

\* The two argument expressions of the constructor call are evaluated in an
\* order the language leaves open and the build fixes: evalOrder says which
\* one runs first, and so which exception is thrown when both fail.
SaveFilterState(request, evalOrder) ==
    LET name == Then(Arg(request, 0), AsString)
        state == Then(Arg(request, 1), AsBool)
    IN  CASE name.ok /\ state.ok ->
               Returned([type |-> "SaveFilterStateQuery",
                         name |-> name.val, state |-> state.val])
          [] ~name.ok /\ state.ok -> Thrown(name.exc, <<>>)
          [] name.ok /\ ~state.ok -> Thrown(state.exc, <<>>)
          [] OTHER -> Thrown(IF evalOrder = "left" THEN name.exc ELSE state.exc, <<>>)

\* StringQuery with as<string>(""): a fallback in place of the exception.
StringQueryWithFallback(request, t) ==
    LET s == Then(Arg(request, 0), AsString)
    IN  New(IF s.ok \/ s.exc.class # "YAML::TypedBadConversion" THEN s ELSE Ok(""),
            LAMBDA v : [type |-> t, arg |-> v])

\* A Query built from request["args"][0].as<string>().
StringQuery(request, t) ==
    New(Then(Arg(request, 0), AsString), LAMBDA s : [type |-> t, arg |-> s])

\* A Query built from request["args"][0].as<std::vector<string>>().
StringVectorQuery(request, t) ==
    New(Then(Arg(request, 0), AsStringVector), LAMBDA v : [type |-> t, plugins |-> v])

\* A Query built from the handler's own state alone.
PlainQuery(t) == Returned([type |-> t])

\* The chain of name comparisons.
QueryFor(name, request, evalOrder) ==
    CASE name = "applySort" -> StringVectorQuery(request, "ApplySortQuery")
      [] name = "cancelFind" -> PlainQuery("CancelFindQuery")
      [] name = "cancelSort" -> PlainQuery("CancelSortQuery")
      [] name = "changeGame" -> StringQuery(request, "ChangeGameQuery")
      [] name = "clearAllMetadata" -> PlainQuery("ClearAllMetadataQuery")
      [] name = "clearPluginMetadata" -> StringQuery(request, "ClearPluginMetadataQuery")
      [] name = "closeSettings" -> CloseSettings(request)
      [] name = "copyContent" -> CopyContent(request)
      [] name = "copyLoadOrder" -> StringVectorQuery(request, "CopyLoadOrderQuery")
      [] name = "copyMetadata" -> StringQuery(request, "CopyMetadataQuery")
      [] name = "discardUnappliedChanges" -> PlainQuery("DiscardUnappliedChangesQuery")
      [] name = "editorClosed" -> EditorClosed(request)
      [] name = "editorOpened" -> PlainQuery("EditorOpenedQuery")
      [] name = "getConflictingPlugins" -> StringQuery(request, "GetConflictingPluginsQuery")
      [] name = "getGameTypes" -> PlainQuery("GetGameTypesQuery")
      [] name = "getGameData" -> PlainQuery("GetGameDataQuery")
      [] name = "getInitErrors" -> PlainQuery("GetInitErrorsQuery")
      [] name = "getInstalledGames" -> PlainQuery("GetInstalledGamesQuery")
      [] name = "getLanguages" -> PlainQuery("GetLanguagesQuery")
      [] name = "getSettings" -> PlainQuery("GetSettingsQuery")
      [] name = "getVersion" -> PlainQuery("GetVersionQuery")
      [] name = "openLogLocation" -> PlainQuery("OpenLogLocationQuery")
      [] name = "openReadme" -> PlainQuery("OpenReadmeQuery")
      [] name = "redatePlugins" -> PlainQuery("RedatePluginsQuery")
      [] name = "saveFilterState" -> SaveFilterState(request, evalOrder)
      [] name = "sortPlugins" -> PlainQuery("SortPluginsQuery")
      [] name = "updateMasterlist" -> PlainQuery("UpdateMasterlistQuery")
      [] OTHER -> NullPtr

\* request["name"].as<string>()
RequestName(request) == Then(GetKey(request, "name"), AsString)

\* createQuery comparing names without regard to case.
createQueryIgnoresCase(requestString, evalOrder) ==
    LET request == JSONparse(requestString)
        name == Then(request, RequestName)
    IN  IF name.ok
        THEN QueryFor(IF name.val = "applysort" THEN "applySort" ELSE name.val,
                      request.val, evalOrder)
        ELSE Thrown(name.exc, <<>>)

\* createQuery turning away, ahead of the chain, an `args` that is no list of
\* at most two values.
createQueryValidatesArgs(requestString, evalOrder) ==
    LET request == JSONparse(requestString)
        name == Then(request, RequestName)
        args == Then(request, LAMBDA r : GetKey(r, "args"))
    IN  CASE ~name.ok -> Thrown(name.exc, <<>>)
          [] ~args.ok -> Thrown(args.exc, <<>>)
          [] args.val.type = "Scalar" \/ (args.val.type = "Sequence" /\ Len(args.val.seq) > 2) ->
               Thrown(Exception("YAML::TypedBadConversion", args.val.mark, BAD_CONVERSION),
                      <<>>)
          [] OTHER -> QueryFor(name.val, request.val, evalOrder)

\* createQuery reading request["args"][0].as<string>() ahead of the chain.
createQueryArgsFirst(requestString, evalOrder) ==
    LET request == JSONparse(requestString)
        name == Then(request, RequestName)
        arg == Then(request, LAMBDA r : Then(Arg(r, 0), AsString))
    IN  CASE ~name.ok -> Thrown(name.exc, <<>>)
          [] ~arg.ok -> Thrown(arg.exc, <<>>)
          [] OTHER -> QueryFor(name.val, request.val, evalOrder)

\* The body of createQuery: parse, read the name, walk the chain.
createQuery(requestString, evalOrder) ==
    LET request == JSONparse(requestString)
        name == Then(request, RequestName)
    IN  IF name.ok
        THEN QueryFor(name.val, request.val, evalOrder)
        ELSE Thrown(name.exc, <<>>)

(***************************************************************************)
(* QueryHandler::OnQuery                                                   *)
(***************************************************************************)
\* The code every failure reported by OnQuery carries.
GenericErrorCode == -1

\* callback->Failure(code, message) and callback->Success(response), with
\* the thread the call is made on and the function that makes it.
Failure(code, message, thread, caller) ==
    [method |-> "Failure", code |-> code, message |-> message,
     thread |-> thread, caller |-> caller]
Success(thread, caller) ==
    [method |-> "Success", code |-> 0, message |-> <<"response">>,
     thread |-> thread, caller |-> caller]

\* base::Bind(&Query::execute, query, callback)
Bind(query, callback) == [query |-> query, callback |-> callback]

\* Catches, had the clause named YAML::RepresentationException.
CatchesRepresentationOnly(e) == e.class \in RepresentationExceptions

\* The catch clause of OnQuery: `catch (exception &e)` matches the classes
\* derived from std::exception.
Catches(e) == e.class \in StdExceptions

\* OnQueryCatch with a code of its own for text that does not parse.
OnQueryCatchCodeByClass(e) ==
    <<Failure(IF e.class = "YAML::ParserException" THEN -2 ELSE GenericErrorCode,
              what(e), "UI", "OnQuery")>>

\* What the handler does with the exception it caught.
OnQueryCatch(e) == <<Failure(GenericErrorCode, what(e), "UI", "OnQuery")>>

\* Dispatch without `if (!query) return false;`: the null Query is posted.
DispatchNoNullCheck(callback, outcome) ==
    CASE outcome.kind \in {"nullptr", "query"} ->
           [end |-> "return", value |-> TRUE,
            posted |-> <<Bind(IF outcome.kind = "query" THEN outcome.query
                              ELSE [type |-> "nullptr"], callback)>>,
            calls |-> <<>>]
      [] outcome.kind = "throw" /\ Catches(outcome.exc) ->
           [end |-> "return", value |-> TRUE, posted |-> <<>>,
            calls |-> OnQueryCatch(outcome.exc)]
      [] OTHER ->
           [end |-> "throw", value |-> FALSE, posted |-> <<>>, calls |-> <<>>]

\* Dispatch with `if (!query) return true;`.
DispatchNullAccepted(callback, outcome) ==
    CASE outcome.kind = "nullptr" ->
           [end |-> "return", value |-> TRUE, posted |-> <<>>, calls |-> <<>>]
      [] outcome.kind = "query" ->
           [end |-> "return", value |-> TRUE,
            posted |-> <<Bind(outcome.query, callback)>>, calls |-> <<>>]
      [] outcome.kind = "throw" /\ Catches(outcome.exc) ->
           [end |-> "return", value |-> TRUE, posted |-> <<>>,
            calls |-> OnQueryCatch(outcome.exc)]
      [] OTHER ->
           [end |-> "throw", value |-> FALSE, posted |-> <<>>, calls |-> <<>>]

\* Dispatch without the CefPostTask call.
DispatchNoPost(callback, outcome) ==
    CASE outcome.kind = "nullptr" ->
           [end |-> "return", value |-> FALSE, posted |-> <<>>, calls |-> <<>>]
      [] outcome.kind = "query" ->
           [end |-> "return", value |-> TRUE, posted |-> <<>>, calls |-> <<>>]
      [] outcome.kind = "throw" /\ Catches(outcome.exc) ->
           [end |-> "return", value |-> TRUE, posted |-> <<>>,
            calls |-> OnQueryCatch(outcome.exc)]
      [] OTHER ->
           [end |-> "throw", value |-> FALSE, posted |-> <<>>, calls |-> <<>>]

\* Dispatch with `return false;` at the end of the catch block.
DispatchCatchReturnsFalse(callback, outcome) ==
    CASE outcome.kind = "nullptr" ->
           [end |-> "return", value |-> FALSE, posted |-> <<>>, calls |-> <<>>]
      [] outcome.kind = "query" ->
           [end |-> "return", value |-> TRUE,
            posted |-> <<Bind(outcome.query, callback)>>, calls |-> <<>>]
      [] outcome.kind = "throw" /\ Catches(outcome.exc) ->
           [end |-> "return", value |-> FALSE, posted |-> <<>>,
            calls |-> OnQueryCatch(outcome.exc)]
      [] OTHER ->
           [end |-> "throw", value |-> FALSE, posted |-> <<>>, calls |-> <<>>]

\* Dispatch with `if (!query) callback->Failure(...)` and no return: the
\* Failure is reported and the null Query is posted all the same.
DispatchFailsThenPosts(callback, outcome) ==
    CASE outcome.kind = "nullptr" ->
           [end |-> "return", value |-> TRUE,
            posted |-> <<Bind([type |-> "nullptr"], callback)>>,
            calls |-> <<Failure(GenericErrorCode, <<"unknown query">>, "UI", "OnQuery")>>]
      [] outcome.kind = "query" ->
           [end |-> "return", value |-> TRUE,
            posted |-> <<Bind(outcome.query, callback)>>, calls |-> <<>>]
      [] outcome.kind = "throw" /\ Catches(outcome.exc) ->
           [end |-> "return", value |-> TRUE, posted |-> <<>>,
            calls |-> OnQueryCatch(outcome.exc)]
      [] OTHER ->
           [end |-> "throw", value |-> FALSE, posted |-> <<>>, calls |-> <<>>]

\* Dispatch with a second CefPostTask of the same Query.
DispatchPostsTwice(callback, outcome) ==
    CASE outcome.kind = "nullptr" ->
           [end |-> "return", value |-> FALSE, posted |-> <<>>, calls |-> <<>>]
      [] outcome.kind = "query" ->
           [end |-> "return", value |-> TRUE,
            posted |-> <<Bind(outcome.query, callback), Bind(outcome.query, callback)>>,
            calls |-> <<>>]
      [] outcome.kind = "throw" /\ Catches(outcome.exc) ->
           [end |-> "return", value |-> TRUE, posted |-> <<>>,
            calls |-> OnQueryCatch(outcome.exc)]
      [] OTHER ->
           [end |-> "throw", value |-> FALSE, posted |-> <<>>, calls |-> <<>>]

\* The body of OnQuery after createQuery has ended with `outcome`, for the
\* request whose Callback is `callback`: how the call ends (it returns
\* `value`, or the exception leaves it), the tasks it posts to TID_FILE and
\* the calls it makes on the Callback.
Dispatch(callback, outcome) ==
    CASE outcome.kind = "nullptr" ->
           [end |-> "return", value |-> FALSE, posted |-> <<>>, calls |-> <<>>]
      [] outcome.kind = "query" ->
           [end |-> "return", value |-> TRUE,
            posted |-> <<Bind(outcome.query, callback)>>, calls |-> <<>>]
      [] outcome.kind = "throw" /\ Catches(outcome.exc) ->
           [end |-> "return", value |-> TRUE, posted |-> <<>>,
            calls |-> OnQueryCatch(outcome.exc)]
      [] OTHER ->
           [end |-> "throw", value |-> FALSE, posted |-> <<>>, calls |-> <<>>]

\* OnQuery with `query->execute(callback)` in place of CefPostTask: the
\* Query body runs on the UI thread, and OnQuery returns when it has ended.
OnQueryRunsInline(request, evalOrder) ==
    LET callback == Len(requests) + 1
        outcome == createQuery(request, evalOrder)
        d == Dispatch(callback, outcome)
    IN  /\ requests' = Append(requests, request)
        /\ results' = Append(results,
               [outcome |-> outcome, end |-> d.end, value |-> d.value,
                posted |-> d.posted])
        /\ \E reply \in {Success("UI", "Query::execute"),
                         Failure(1, <<"query failed">>, "UI", "Query::execute")} :
              callbacks' = Append(callbacks,
                  IF d.posted = <<>> THEN d.calls ELSE <<reply>>)
        /\ executions' = Append(executions,
               [k \in 1..Len(d.posted) |-> [query |-> d.posted[k].query, thread |-> "UI"]])
        /\ UNCHANGED <<taskQueue, fileThread, argumentOrder>>

\* OnQuery turning a Query away while the FILE thread is running another.
OnQueryWhileBusy(request, evalOrder) ==
    LET callback == Len(requests) + 1
        outcome == createQuery(request, evalOrder)
        d == Dispatch(callback, outcome)
        busy == fileThread # <<>> /\ d.posted # <<>>
    IN  /\ requests' = Append(requests, request)
        /\ results' = Append(results,
               [outcome |-> outcome, end |-> d.end, value |-> d.value,
                posted |-> IF busy THEN <<>> ELSE d.posted])
        /\ callbacks' = Append(callbacks,
               IF busy THEN <<Failure(GenericErrorCode, <<"busy">>, "UI", "OnQuery")>>
               ELSE d.calls)
        /\ executions' = Append(executions, <<>>)
        /\ taskQueue' = IF busy THEN taskQueue ELSE taskQueue \o d.posted
        /\ UNCHANGED <<fileThread, argumentOrder>>

\* One call of OnQuery, on the UI thread, from entry to return.
OnQuery(request, evalOrder) ==
    LET callback == Len(requests) + 1
        outcome == createQuery(request, evalOrder)
        d == Dispatch(callback, outcome)
    IN  /\ requests' = Append(requests, request)
        /\ results' = Append(results,
               [outcome |-> outcome, end |-> d.end, value |-> d.value,
                posted |-> d.posted])
        /\ callbacks' = Append(callbacks, d.calls)
        /\ executions' = Append(executions, <<>>)
        /\ taskQueue' = taskQueue \o d.posted
        /\ UNCHANGED <<fileThread, argumentOrder>>

(***************************************************************************)
(* The FILE thread                                                         *)
(***************************************************************************)
\* The FILE thread takes the oldest posted task and enters Query::execute.
RunTask ==
    /\ fileThread = <<>>
    /\ taskQueue # <<>>
    /\ fileThread' = <<Head(taskQueue)>>
    /\ taskQueue' = Tail(taskQueue)
    /\ executions' = [executions EXCEPT ![Head(taskQueue).callback] =
                         Append(@, [query |-> Head(taskQueue).query, thread |-> "FILE"])]
    /\ UNCHANGED <<requests, results, callbacks, argumentOrder>>

\* The replies a Query body can give: its response, or a failure of its own.
Replies ==
    {Success("FILE", "Query::execute"),
     Failure(1, <<"query failed">>, "FILE", "Query::execute")}

\* Query::execute comes to its end: it has answered the Callback it was
\* bound to, once.  A body that never ends is a behaviour in which this step
\* is never taken.
FinishTask ==
    /\ fileThread # <<>>
    /\ \E reply \in Replies :
          callbacks' = [callbacks EXCEPT ![fileThread[1].callback] = Append(@, reply)]
    /\ fileThread' = <<>>
    /\ UNCHANGED <<requests, results, taskQueue, executions, argumentOrder>>

(***************************************************************************)
(* Requests                                                                *)
(***************************************************************************)
RecognizedNames ==
    {"applySort", "cancelFind", "cancelSort", "changeGame", "clearAllMetadata",
     "clearPluginMetadata", "closeSettings", "copyContent", "copyLoadOrder",
     "copyMetadata", "discardUnappliedChanges", "editorClosed", "editorOpened",
     "getConflictingPlugins", "getGameTypes", "getGameData", "getInitErrors",
     "getInstalledGames", "getLanguages", "getSettings", "getVersion",
     "openLogLocation", "openReadme", "redatePlugins", "saveFilterState",
     "sortPlugins", "updateMasterlist"}

\* Names the chain does not hold: another case, a longer name, the empty
\* name, a name that spells a boolean, a name behind a space, a name cut
\* short, the name of a Query class.
OtherNames ==
    {"applysort", "applySortX", "", "true", " applySort", "apply", "GetVersionQuery"}

\* The marks of the nodes of a request document.
DocMark == Mark(0, 0)
NameMark == Mark(0, 9)
ArgsMark == Mark(0, 30)
ArgMark(i) == Mark(0, 31 + 20 * i)
MetadataMarks == {Mark(0, 60), Mark(3, 4)}

Strings == {"myFilter", "true", "notABoolean"}
StringVectors == {<<>>, <<"a.esp", "b.esp">>, <<"b.esp", "a.esp">>}

StringNode(s, i) == Scalar(s, ArgMark(i))
StringVectorNode(v, i) ==
    Sequence([k \in 1..Len(v) |-> Scalar(v[k], Mark(0, 32 + 20 * i + k))], ArgMark(i))
\* A sequence whose second element is itself a sequence.
NestedVectorNode(i) ==
    Sequence(<<Scalar("a.esp", Mark(0, 33 + 20 * i)),
               Sequence(<<>>, Mark(0, 34 + 20 * i))>>, ArgMark(i))

\* Plugin metadata documents: well-formed, without a name, not a map.
MetadataNodes ==
    {Map([name |-> Scalar("a.esp", m)], m) : m \in MetadataMarks}
    \cup {Map([enabled |-> Scalar("true", m)], m) : m \in MetadataMarks}
    \cup {Scalar("a.esp", m) : m \in MetadataMarks}

\* The argument of editorClosed: an object with applyEdits and metadata,
\* with either left out.
EditorNodes ==
    {Map([applyEdits |-> Scalar(b, Mark(0, 45)), metadata |-> md], ArgMark(0)) :
        b \in {"true", "False", "notABoolean"}, md \in MetadataNodes}
    \cup {Map([metadata |-> md], ArgMark(0)) : md \in MetadataNodes}
    \cup {Map([applyEdits |-> Scalar(b, Mark(0, 45))], ArgMark(0)) : b \in {"true", "notABoolean"}}
    \cup {Map([applyEdits |-> Sequence(<<>>, Mark(0, 45)),
               metadata |-> Map([name |-> Scalar("a.esp", Mark(0, 60))], Mark(0, 60))],
              ArgMark(0))}

\* Settings documents: well-formed, empty, and with a field of the wrong type.
SettingsNodes ==
    {Map([game |-> Scalar("Skyrim", Mark(0, 40)),
          enableDebugLogging |-> Scalar("true", Mark(0, 70))], ArgMark(0)),
     Map([game |-> Scalar("Oblivion", Mark(0, 40))], ArgMark(0)),
     Map([game |-> Sequence(<<>>, Mark(0, 40))], ArgMark(0)),
     Map([enableDebugLogging |-> Scalar("notABoolean", Mark(0, 70))], ArgMark(0))}

FirstArgs ==
    {StringNode(s, 0) : s \in Strings}
    \cup {StringVectorNode(v, 0) : v \in StringVectors}
    \cup {NestedVectorNode(0)}
    \cup EditorNodes \cup SettingsNodes

SecondArgs ==
    {StringNode(s, 1) : s \in {"true", "Off", "notABoolean"}}
    \cup {StringVectorNode(<<"a.esp", "b.esp">>, 1)}

\* The `args` of a request: a sequence of no, one, two or three values, or a
\* scalar.
ArgsNodes ==
    {Sequence(<<>>, ArgsMark), Scalar("myFilter", ArgsMark)}
    \cup {Sequence(<<a>>, ArgsMark) : a \in FirstArgs}
    \cup {Sequence(<<a, b>>, ArgsMark) :
            a \in {StringNode("myFilter", 0), StringVectorNode(<<"a.esp", "b.esp">>, 0)},
            b \in SecondArgs}
    \cup {Sequence(<<a, StringNode("true", 1)>>, ArgsMark) :
            a \in {Map([game |-> Scalar("Oblivion", Mark(0, 40))], ArgMark(0)),
                   Map([applyEdits |-> Scalar("true", Mark(0, 45)),
                        metadata |-> Map([name |-> Scalar("a.esp", Mark(0, 60))],
                                         Mark(0, 60))], ArgMark(0))}}
    \cup {Sequence(<<StringNode("myFilter", 0), StringNode("true", 1),
                     StringNode("notABoolean", 2)>>, ArgsMark)}

\* { "name": name, "args": args } and { "name": name }
Request(name, args) ==
    Text(Map([name |-> Scalar(name, NameMark), args |-> args], DocMark))
RequestNoArgs(name) == Text(Map([name |-> Scalar(name, NameMark)], DocMark))

\* Request strings that do not decode: text that does not parse, a document
\* that is a scalar or a sequence, a map without `name`, a map whose `name`
\* is a sequence or a map.
UndecodableRequests ==
    {Malformed(Mark(0, 5), "end of map not found"),
     Malformed(Mark(2, 0), "illegal EOF in scalar"),
     Text(Scalar("applySort", DocMark)),
     Text(Sequence(<<Scalar("applySort", NameMark)>>, DocMark)),
     Text(Map([args |-> Sequence(<<>>, ArgsMark)], DocMark)),
     Text(Map([name |-> Sequence(<<Scalar("applySort", NameMark)>>, NameMark),
               args |-> Sequence(<<>>, ArgsMark)], DocMark)),
     Text(Map([name |-> Map([name |-> Scalar("getVersion", NameMark)], NameMark)],
              DocMark))}

\* Every request string of the model.
AllRequests ==
    UndecodableRequests
    \cup {RequestNoArgs(n) : n \in RecognizedNames \cup OtherNames}
    \cup {Request(n, a) : n \in RecognizedNames \cup OtherNames, a \in ArgsNodes}

GoodMetadata == Map([name |-> Scalar("a.esp", Mark(0, 60))], Mark(0, 60))
BadMetadata == Map([enabled |-> Scalar("true", Mark(3, 4))], Mark(3, 4))
Args1(a) == Sequence(<<a>>, ArgsMark)
Args2(a, b) == Sequence(<<a, b>>, ArgsMark)

\* The request strings sent in sequences: one or two of each way a request
\* can go.
Requests ==
    {Malformed(Mark(0, 5), "end of map not found"),
     Text(Map([args |-> Sequence(<<>>, ArgsMark)], DocMark)),
     RequestNoArgs("applysort"),
     Request("applySortX", Scalar("myFilter", ArgsMark)),
     Request("applySort", Args1(StringVectorNode(<<"a.esp", "b.esp">>, 0))),
     RequestNoArgs("applySort"),
     Request("changeGame", Args1(StringNode("myFilter", 0))),
     RequestNoArgs("getVersion"),
     RequestNoArgs("copyContent"),
     Request("closeSettings", Args1(
         Map([game |-> Scalar("Oblivion", Mark(0, 40))], ArgMark(0)))),
     Request("closeSettings", Args1(
         Map([game |-> Sequence(<<>>, Mark(0, 40))], ArgMark(0)))),
     Request("editorClosed", Args1(
         Map([applyEdits |-> Scalar("true", Mark(0, 45)), metadata |-> GoodMetadata],
             ArgMark(0)))),
     Request("editorClosed", Args1(
         Map([applyEdits |-> Scalar("true", Mark(0, 45)), metadata |-> BadMetadata],
             ArgMark(0)))),
     Request("saveFilterState", Args2(StringNode("myFilter", 0), StringNode("true", 1))),
     Request("saveFilterState",
             Args2(StringVectorNode(<<"a.esp", "b.esp">>, 0), StringNode("notABoolean", 1)))}

\* The request strings sent again and again: one of each way a request can
\* go.
ReplayRequests ==
    {Malformed(Mark(0, 5), "end of map not found"),
     RequestNoArgs("applysort"),
     RequestNoArgs("getVersion"),
     Request("changeGame", Args1(StringNode("myFilter", 0))),
     Request("saveFilterState",
             Args2(StringVectorNode(<<"a.esp", "b.esp">>, 0), StringNode("notABoolean", 1)))}

EvalOrders == {"left", "right"}

(***************************************************************************)
(* Specifications                                                          *)
(***************************************************************************)
Init ==
    /\ requests = <<>>
    /\ results = <<>>
    /\ callbacks = <<>>
    /\ executions = <<>>
    /\ taskQueue = <<>>
    /\ fileThread = <<>>
    /\ argumentOrder \in EvalOrders

\* The browser sends a request.
Receive ==
    /\ Len(requests) < MaxRequests
    /\ \E request \in Requests : OnQuery(request, argumentOrder)

Next == Receive \/ RunTask \/ FinishTask

\* Sequences of requests, with Query bodies that may never end.
Spec == Init /\ [][Next]_vars

\* The same, with a FILE thread that runs every task posted to it and Query
\* bodies that all come to their end.
LiveSpec == Spec /\ WF_vars(RunTask) /\ WF_vars(FinishTask)

\* The browser sends one request, any of AllRequests.
ReceiveAny ==
    /\ requests = <<>>
    /\ \E request \in AllRequests : OnQuery(request, argumentOrder)

NextAny == ReceiveAny \/ RunTask \/ FinishTask

\* One request, drawn from every name with every argument list.
FactorySpec == Init /\ [][NextAny]_vars

\* The browser sends a request it may have sent before.
Replay ==
    /\ Len(requests) < MaxReplayRequests
    /\ \E request \in ReplayRequests : OnQuery(request, argumentOrder)

NextReplay == Replay \/ RunTask \/ FinishTask

\* Sequences of requests in which a request string comes again, with other
\* requests between.
ReplaySpec == Init /\ [][NextReplay]_vars

(***************************************************************************)
(* Properties.  A request is described by its document alone, apart from   *)
(* what createQuery makes of it.                                           *)
(***************************************************************************)
\* The request decodes: it parses to a map with a scalar `name`.
Decodes(r) ==
    /\ r.syntax = "ok"
    /\ r.doc.type = "Map"
    /\ "name" \in DOMAIN r.doc.map
    /\ r.doc.map["name"].type = "Scalar"

NameOf(r) == r.doc.map["name"].scalar

Recognized(r) == Decodes(r) /\ NameOf(r) \in RecognizedNames
Unrecognized(r) == Decodes(r) /\ NameOf(r) \notin RecognizedNames

\* args[i] is there.
HasArg(r, i) ==
    /\ "args" \in DOMAIN r.doc.map
    /\ r.doc.map["args"].type = "Sequence"
    /\ i < Len(r.doc.map["args"].seq)

ArgAt(r, i) == r.doc.map["args"].seq[i + 1]

IsString(n) == n.type = "Scalar"
IsBoolean(n) == n.type = "Scalar" /\ n.scalar \in TrueNames \cup FalseNames
IsStringSequence(n) ==
    n.type = "Sequence" /\ \A k \in 1..Len(n.seq) : n.seq[k].type = "Scalar"
IsMetadata(n) ==
    n.type = "Map" /\ "name" \in DOMAIN n.map /\ n.map["name"].type = "Scalar"
IsEditorState(n) ==
    /\ n.type = "Map"
    /\ "applyEdits" \in DOMAIN n.map /\ IsBoolean(n.map["applyEdits"])
    /\ "metadata" \in DOMAIN n.map /\ IsMetadata(n.map["metadata"])
IsSettings(n) ==
    /\ n.type = "Map"
    /\ "game" \in DOMAIN n.map => IsString(n.map["game"])
    /\ "enableDebugLogging" \in DOMAIN n.map => IsBoolean(n.map["enableDebugLogging"])

StringArgNames ==
    {"changeGame", "clearPluginMetadata", "copyMetadata", "getConflictingPlugins"}
StringSequenceArgNames == {"applySort", "copyLoadOrder"}
\* The names whose branch reads request["args"].
ArgNames ==
    StringArgNames \cup StringSequenceArgNames
    \cup {"closeSettings", "copyContent", "editorClosed", "saveFilterState"}

\* The arguments the command named by r requires are there, each of the
\* type the command requires.
WellFormedArgs(r) ==
    LET n == NameOf(r) IN
    CASE n \in StringArgNames -> HasArg(r, 0) /\ IsString(ArgAt(r, 0))
      [] n \in StringSequenceArgNames -> HasArg(r, 0) /\ IsStringSequence(ArgAt(r, 0))
      [] n = "saveFilterState" ->
           /\ HasArg(r, 0) /\ IsString(ArgAt(r, 0))
           /\ HasArg(r, 1) /\ IsBoolean(ArgAt(r, 1))
      [] n = "editorClosed" -> HasArg(r, 0) /\ IsEditorState(ArgAt(r, 0))
      [] n = "closeSettings" -> HasArg(r, 0) /\ IsSettings(ArgAt(r, 0))
      [] n = "copyContent" -> HasArg(r, 0)
      [] OTHER -> TRUE

Ids == 1..Len(requests)

\* The tasks bound to the Callback of request i that wait in the queue or
\* run on the FILE thread.
Pending(i) ==
    {k \in 1..Len(taskQueue) : taskQueue[k].callback = i}
Running(i) == fileThread # <<>> /\ fileThread[1].callback = i

\* OnQuery call i returned `value`.
ReturnedValue(i, value) == results[i].end = "return" /\ results[i].value = value

\* Nothing is, was or will be run for request i.
NothingScheduled(i) ==
    /\ results[i].posted = <<>>
    /\ Pending(i) = {}
    /\ ~Running(i)
    /\ executions[i] = <<>>

\* The Callback of request i got one call: a Failure, from OnQuery itself.
OneSynchronousFailure(i) ==
    /\ Len(callbacks[i]) = 1
    /\ callbacks[i][1].method = "Failure"
    /\ callbacks[i][1].caller = "OnQuery"
    /\ callbacks[i][1].thread = "UI"

\* C1: a request whose name is none of the recognized names is answered
\* with false, its Callback gets no call, and nothing is scheduled for it,
\* in the state OnQuery returns in and in every later one.
C1_UnrecognizedNotHandled ==
    \A i \in Ids :
        Unrecognized(requests[i]) =>
            /\ ReturnedValue(i, FALSE)
            /\ callbacks[i] = <<>>
            /\ NothingScheduled(i)

\* An unrecognized request, followed by a request whose Query has run and
\* answered.
C1_Witness ==
    /\ Len(requests) = 2
    /\ Unrecognized(requests[1])
    /\ ReturnedValue(1, FALSE)
    /\ Len(executions[2]) = 1
    /\ Len(callbacks[2]) = 1

C3_RecognizedScheduled ==
    \A i \in Ids :
        (Recognized(requests[i]) /\ WellFormedArgs(requests[i])) =>
            /\ ReturnedValue(i, TRUE)
            /\ Len(results[i].outcome.constructed) = 1
            /\ results[i].posted = <<Bind(results[i].outcome.constructed[1], i)>>
            /\ Cardinality(Pending(i)) + Len(executions[i]) = 1
            /\ \A k \in 1..Len(executions[i]) :
                   executions[i][k].query = results[i].outcome.constructed[1]
            /\ \A k \in 1..Len(callbacks[i]) : callbacks[i][k].caller # "OnQuery"

\* A saveFilterState request with both arguments has been handled and its
\* Query waits in the queue.
C3_Witness ==
    \E i \in Ids :
        /\ Recognized(requests[i])
        /\ NameOf(requests[i]) = "saveFilterState"
        /\ WellFormedArgs(requests[i])
        /\ ReturnedValue(i, TRUE)
        /\ Pending(i) # {}

\* C4, as claimed: OnQuery returns true for every request.
C4_AlwaysAccepted ==
    \A i \in Ids : ReturnedValue(i, TRUE)

\* C4, amended: OnQuery returns true for every request but those whose name
\* is not recognized, for which it returns false.
C4_AcceptedUnlessUnrecognized ==
    \A i \in Ids :
        /\ results[i].end = "return"
        /\ results[i].value = ~Unrecognized(requests[i])

\* A request that failed to decode and an unrecognized one, the first
\* answered with true and the second with false.
C4_Witness ==
    /\ Len(requests) = 2
    /\ ~Decodes(requests[1]) /\ ReturnedValue(1, TRUE)
    /\ Unrecognized(requests[2]) /\ ReturnedValue(2, FALSE)

\* Request i has been answered with true / with false.
Accepted(i) == i \in Ids /\ ReturnedValue(i, TRUE)
Rejected(i) == i \in Ids /\ ReturnedValue(i, FALSE)

\* The Callback of request i has got exactly one call.
Replied(i) == i \in Ids /\ Len(callbacks[i]) = 1

\* C5: every request answered with true gets exactly one reply in the end
\* (under a fair FILE thread and Query bodies that end), no Callback ever
\* gets a second call, and a request answered with false never gets a
\* reply.
C5_AcceptedEventuallyReplied ==
    /\ \A i \in 1..MaxRequests : Accepted(i) ~> [](Replied(i))
    /\ [](\A i \in Ids : Len(callbacks[i]) <= 1)
    /\ [](\A i \in Ids : Rejected(i) => callbacks[i] = <<>>)

\* Two Queries were posted one behind the other and both have answered.
C5_Witness ==
    /\ Len(requests) = 2
    /\ \A i \in {1, 2} :
          /\ Len(results[i].posted) = 1
          /\ Replied(i)
          /\ callbacks[i][1].caller = "Query::execute"

\* Construction failed for request i with an argument-shape error: no Query
\* is built, nothing is scheduled, the Callback gets one Failure from
\* OnQuery, and OnQuery returns true.
ShapeFailure(i) ==
    /\ results[i].outcome.kind = "throw"
    /\ results[i].outcome.exc.class \in RepresentationExceptions
    /\ results[i].outcome.constructed = <<>>
    /\ NothingScheduled(i)
    /\ OneSynchronousFailure(i)
    /\ ReturnedValue(i, TRUE)

C7_NothingPropagates ==
    \A i \in Ids :
        /\ results[i].end = "return"
        /\ results[i].value \in BOOLEAN
        /\ results[i].outcome.kind = "throw" =>
              /\ OneSynchronousFailure(i)
              /\ callbacks[i][1].message = what(results[i].outcome.exc)

\* The settings document of a closeSettings request did not parse, and the
\* request has been answered with a Failure.
C7_Witness ==
    \E i \in Ids :
        /\ Recognized(requests[i])
        /\ NameOf(requests[i]) = "closeSettings"
        /\ HasArg(requests[i], 0)
        /\ ArgAt(requests[i], 0).type = "Map"
        /\ results[i].outcome.kind = "throw"
        /\ OneSynchronousFailure(i)

\* C8: every Failure OnQuery makes carries the code -1, whatever threw and
\* whatever the name, and the what() of the exception OnQuery caught.
C8_GenericCode ==
    \A i \in Ids :
        \A k \in 1..Len(callbacks[i]) :
            callbacks[i][k].caller = "OnQuery" =>
                /\ callbacks[i][k].method = "Failure"
                /\ callbacks[i][k].code = -1
                /\ results[i].outcome.kind = "throw"
                /\ callbacks[i][k].message = what(results[i].outcome.exc)

\* Text that does not parse has been answered with code -1 and the
\* parser's message behind its position.
C8_Witness ==
    \E i \in Ids :
        /\ requests[i].syntax = "bad"
        /\ callbacks[i] =
             <<Failure(-1, <<"yaml-cpp: error at line ", 1, ", column ", 6, ": ",
                             "end of map not found">>, "UI", "OnQuery")>>

\* args[0] of an editorClosed request is an object whose applyEdits or
\* metadata is malformed.
MalformedEditorState(r) ==
    /\ Recognized(r)
    /\ NameOf(r) = "editorClosed"
    /\ HasArg(r, 0)
    /\ ArgAt(r, 0).type = "Map"
    /\ ~IsEditorState(ArgAt(r, 0))
    /\ \/ "applyEdits" \in DOMAIN ArgAt(r, 0).map
       \/ "metadata" \in DOMAIN ArgAt(r, 0).map

\* C9: for editorClosed with a malformed applyEdits or metadata,
\* construction fails with an argument-shape error that has the message of
\* the inner error and the null mark, whatever mark the inner error had;
\* the Failure reports that message, and no Query is built or scheduled.
C9_EditorClosedStripsMark ==
    \A i \in Ids :
        MalformedEditorState(requests[i]) =>
            /\ ShapeFailure(i)
            /\ Len(results[i].outcome.caught) = 1
            /\ results[i].outcome.exc.msg = results[i].outcome.caught[1].msg
            /\ results[i].outcome.exc.mark = null_mark
            /\ callbacks[i][1].message = <<results[i].outcome.caught[1].msg>>

\* The metadata of an editorClosed request has no name; the inner error
\* was at line 3, column 4 and the Failure reports its message alone.
C9_Witness ==
    \E i \in Ids :
        /\ MalformedEditorState(requests[i])
        /\ results[i].outcome.caught =
             <<Exception("YAML::RepresentationException", Mark(3, 4),
                 "bad conversion: 'name' key missing from 'plugin metadata' object")>>
        /\ callbacks[i][1].message =
             <<"bad conversion: 'name' key missing from 'plugin metadata' object">>

\* The strings of a sequence of scalars, in order.
TextsOf(n) == [k \in 1..Len(n.seq) |-> n.seq[k].scalar]

DispatcherCalls(i) ==
    {k \in 1..Len(callbacks[i]) : callbacks[i][k].caller = "OnQuery"}

\* A Query bound to the Callback of request i was posted: it waits, runs or
\* has run.
Scheduled(i) ==
    \/ results[i].posted # <<>>
    \/ Pending(i) # {}
    \/ Running(i)
    \/ executions[i] # <<>>

\* C11: OnQuery calls the Callback of a request at most once, never calls
\* Success on it, and never both calls Failure on it and posts a Query bound
\* to it.
C11_SinkSingleUse ==
    \A i \in Ids :
        /\ Cardinality(DispatcherCalls(i)) <= 1
        /\ \A k \in DispatcherCalls(i) : callbacks[i][k].method = "Failure"
        /\ ~(DispatcherCalls(i) # {} /\ Scheduled(i))
        /\ Scheduled(i) => Len(results[i].posted) = 1

\* One request was answered with a Failure by OnQuery and has nothing
\* scheduled; the other was scheduled and answered by its Query alone.
C11_Witness ==
    /\ Len(requests) = 2
    /\ Cardinality(DispatcherCalls(1)) = 1 /\ ~Scheduled(1)
    /\ Scheduled(2) /\ Len(callbacks[2]) = 1 /\ DispatcherCalls(2) = {}

\* In a step that is a call of OnQuery, the Query the call posted has not
\* begun when the call returns: it waits in the queue, no execution of it
\* is on record, its Callback is untouched, and the FILE thread is where it
\* was.
ReturnsBeforeExecution ==
    Len(requests') = Len(requests) + 1 =>
        LET i == Len(requests') IN
        /\ executions'[i] = <<>>
        /\ fileThread' = fileThread
        /\ results'[i].posted # <<>> =>
              /\ taskQueue' = taskQueue \o results'[i].posted
              /\ callbacks'[i] = <<>>

\* Query bodies run on the FILE thread and answer from it; OnQuery makes
\* its calls on the UI thread.
BodiesOnFileThread ==
    \A i \in Ids :
        /\ \A k \in 1..Len(executions[i]) : executions[i][k].thread = "FILE"
        /\ \A k \in 1..Len(callbacks[i]) :
              callbacks[i][k].thread =
                 IF callbacks[i][k].caller = "OnQuery" THEN "UI" ELSE "FILE"

\* A Query body is running and has not answered.
BodyRunning == fileThread # <<>> /\ callbacks[fileThread[1].callback] = <<>>

\* C12: OnQuery returns while the Query it posted is still pending; Query
\* bodies run on the FILE thread only; and while a body runs, however long,
\* OnQuery can still be called and returns for the next request.
C12_NeverWaits ==
    /\ [][ReturnsBeforeExecution]_vars
    /\ [](BodiesOnFileThread)
    /\ []((BodyRunning /\ Len(requests) < MaxRequests) => ENABLED Receive)

\* The Query of the first request is still running, unanswered, and the
\* second request has been handled meanwhile: it failed and was told so.
C12_Witness ==
    /\ Len(requests) = 2
    /\ Running(1) /\ callbacks[1] = <<>>
    /\ OneSynchronousFailure(2)

\* The Query of request i has been executed at most once, and then it is
\* the Query the OnQuery call of request i built and posted, bound to the
\* Callback of request i; a Query that was built is waiting or on record
\* as executed, never both and never twice.
ExecutedAtMostOnce(i) ==
    /\ Len(executions[i]) <= 1
    /\ Len(results[i].outcome.constructed) <= 1
    /\ Cardinality(Pending(i)) + Len(executions[i]) = Len(results[i].outcome.constructed)
    /\ \A k \in 1..Len(executions[i]) :
          /\ results[i].outcome.constructed = <<executions[i][k].query>>
          /\ results[i].posted = <<Bind(executions[i][k].query, i)>>
    /\ Running(i) => fileThread[1].query = results[i].outcome.constructed[1]
    /\ \A k \in Pending(i) : taskQueue[k].query = results[i].outcome.constructed[1]

\* Request i built a Query.
Constructed(i) == i \in Ids /\ results[i].outcome.constructed # <<>>

\* The Query of request i has been executed, once.
ExecutedOnce(i) == i \in Ids /\ Len(executions[i]) = 1

VariantOf ==
    [n \in RecognizedNames |->
        CASE n = "applySort" -> "ApplySortQuery"
          [] n = "cancelFind" -> "CancelFindQuery"
          [] n = "cancelSort" -> "CancelSortQuery"
          [] n = "changeGame" -> "ChangeGameQuery"
          [] n = "clearAllMetadata" -> "ClearAllMetadataQuery"
          [] n = "clearPluginMetadata" -> "ClearPluginMetadataQuery"
          [] n = "closeSettings" -> "CloseSettingsQuery"
          [] n = "copyContent" -> "CopyContentQuery"
          [] n = "copyLoadOrder" -> "CopyLoadOrderQuery"
          [] n = "copyMetadata" -> "CopyMetadataQuery"
          [] n = "discardUnappliedChanges" -> "DiscardUnappliedChangesQuery"
          [] n = "editorClosed" -> "EditorClosedQuery"
          [] n = "editorOpened" -> "EditorOpenedQuery"
          [] n = "getConflictingPlugins" -> "GetConflictingPluginsQuery"
          [] n = "getGameTypes" -> "GetGameTypesQuery"
          [] n = "getGameData" -> "GetGameDataQuery"
          [] n = "getInitErrors" -> "GetInitErrorsQuery"
          [] n = "getInstalledGames" -> "GetInstalledGamesQuery"
          [] n = "getLanguages" -> "GetLanguagesQuery"
          [] n = "getSettings" -> "GetSettingsQuery"
          [] n = "getVersion" -> "GetVersionQuery"
          [] n = "openLogLocation" -> "OpenLogLocationQuery"
          [] n = "openReadme" -> "OpenReadmeQuery"
          [] n = "redatePlugins" -> "RedatePluginsQuery"
          [] n = "saveFilterState" -> "SaveFilterStateQuery"
          [] n = "sortPlugins" -> "SortPluginsQuery"
          [] n = "updateMasterlist" -> "UpdateMasterlistQuery"]

\* C14: the name is matched exactly against the 27 recognized names: a
\* recognized name with well-formed arguments yields the Query class of that
\* name and of no other name; any other string (another case, a space, a
\* prefix, a suffix) yields nullptr; a request yields at most one Query.
C14_ExactNameMatch ==
    /\ Cardinality(RecognizedNames) = 27
    /\ \A n1, n2 \in RecognizedNames : VariantOf[n1] = VariantOf[n2] => n1 = n2
    /\ \A i \in Ids :
          LET r == requests[i]
              o == results[i].outcome
          IN  /\ Len(o.constructed) <= 1
              /\ (Recognized(r) /\ WellFormedArgs(r)) =>
                    o.kind = "query" /\ o.query.type = VariantOf[NameOf(r)]
              /\ o.kind = "query" =>
                    Recognized(r) /\ o.query.type = VariantOf[NameOf(r)]
              /\ Unrecognized(r) => o.kind = "nullptr"
              /\ o.kind = "nullptr" => Unrecognized(r)

\* "applysort", with the arguments applySort takes, was not handled.
C14_Witness ==
    \E i \in Ids :
        /\ Decodes(requests[i])
        /\ NameOf(requests[i]) = "applysort"
        /\ HasArg(requests[i], 0)
        /\ IsStringSequence(ArgAt(requests[i], 0))
        /\ results[i].outcome.kind = "nullptr"
        /\ ReturnedValue(i, FALSE)

\* Request i names closeSettings.
IsCloseSettings(i) == Decodes(requests[i]) /\ NameOf(requests[i]) = "closeSettings"

\* args[0] of request i is a settings document that loads.
SettingsLoad(i) ==
    /\ HasArg(requests[i], 0)
    /\ IsSettings(ArgAt(requests[i], 0))

\* C15: for closeSettings the settings are loaded from args[0] before the
\* Query is built: no Query is built before load was called, the Query built
\* holds the settings load produced, and when load fails no Query is built or
\* scheduled and the Callback gets one Failure.
C15_SettingsParsedFirst ==
    \A i \in Ids :
        IsCloseSettings(i) =>
            LET o == results[i].outcome
            IN  /\ \A k \in 1..Len(o.steps) :
                      o.steps[k] = "new" => \E j \in 1..(k - 1) : o.steps[j] = "load"
                /\ o.constructed # <<>> => SettingsLoad(i)
                /\ SettingsLoad(i) =>
                      /\ o.constructed =
                            <<[type |-> "CloseSettingsQuery",
                               settings |-> load(ArgAt(requests[i], 0)).val]>>
                      /\ Len(results[i].posted) = 1
                      /\ DispatcherCalls(i) = {}
                /\ ~SettingsLoad(i) =>
                      /\ o.constructed = <<>>
                      /\ NothingScheduled(i)
                      /\ OneSynchronousFailure(i)

\* A closeSettings whose settings hold a game that is no string failed while
\* loading; nothing was built.
C15_Witness ==
    \E i \in Ids :
        /\ IsCloseSettings(i)
        /\ HasArg(requests[i], 0)
        /\ ArgAt(requests[i], 0).type = "Map"
        /\ ~SettingsLoad(i)
        /\ results[i].outcome.steps = <<"load">>
        /\ results[i].outcome.constructed = <<>>
        /\ OneSynchronousFailure(i)

\* The calls the Callback of request i got from OnQuery itself.
SynchronousCalls(i) ==
    SelectSeq(callbacks[i], LAMBDA c : c.caller = "OnQuery")

\* The places that hold the Query of request i: the task posted and not yet
\* run, and the task the FILE thread is running.
Holders(i) == Cardinality(Pending(i)) + (IF Running(i) THEN 1 ELSE 0)

C17_NameBeforeArguments ==
    \A i \in Ids :
        LET r == requests[i]
            o == results[i].outcome
        IN  /\ Unrecognized(r) =>
                  /\ o.kind = "nullptr"
                  /\ ReturnedValue(i, FALSE)
                  /\ callbacks[i] = <<>>
                  /\ NothingScheduled(i)
            /\ (Decodes(r) /\ (o.kind = "throw" \/ DispatcherCalls(i) # {})) =>
                  /\ Recognized(r)
                  /\ NameOf(r) \in ArgNames
                  /\ ~WellFormedArgs(r)

\* A request with an unrecognized name whose `args` is a scalar was not
\* handled.
C17_Witness ==
    \E i \in Ids :
        /\ Unrecognized(requests[i])
        /\ "args" \in DOMAIN requests[i].doc.map
        /\ requests[i].doc.map["args"].type = "Scalar"
        /\ ReturnedValue(i, FALSE)
        /\ callbacks[i] = <<>>
        /\ NothingScheduled(i)

\* The recognized names whose Query takes nothing from the request.
NoArgNames ==
    {"cancelFind", "cancelSort", "clearAllMetadata", "discardUnappliedChanges",
     "editorOpened", "getGameTypes", "getGameData", "getInitErrors",
     "getInstalledGames", "getLanguages", "getSettings", "getVersion",
     "openLogLocation", "openReadme", "redatePlugins", "sortPlugins",
     "updateMasterlist"}

\* The number of arguments the command named n reads.
Arity(n) == IF n = "saveFilterState" THEN 2 ELSE 1

\* Request r has a list of more arguments than its command reads.
HasExtras(r) ==
    /\ "args" \in DOMAIN r.doc.map
    /\ r.doc.map["args"].type = "Sequence"
    /\ Len(r.doc.map["args"].seq) > Arity(NameOf(r))

\* Request r without the arguments after those its command reads.
WithoutExtras(r) ==
    [r EXCEPT !.doc.map["args"].seq = SubSeq(@, 1, Arity(NameOf(r)))]

\* C18: a recognized name that takes no arguments gets its Query built and
\* posted whatever `args` is: absent, an empty list, a scalar, a list of
\* values of any shape; and a request of a name that takes arguments, with
\* values after those the command reads, has the outcome of the same request
\* without them.
C18_ArgsNotRead ==
    /\ NoArgNames = RecognizedNames \ ArgNames
    /\ Cardinality(NoArgNames) = 17
    /\ \A i \in Ids :
          LET r == requests[i]
              o == results[i].outcome
          IN  /\ (Decodes(r) /\ NameOf(r) \in NoArgNames) =>
                    /\ o = Returned([type |-> VariantOf[NameOf(r)]])
                    /\ ReturnedValue(i, TRUE)
                    /\ Len(results[i].posted) = 1
                    /\ results[i].posted[1].query = o.query
                    /\ DispatcherCalls(i) = {}
              /\ (Decodes(r) /\ NameOf(r) \in ArgNames /\ HasExtras(r)) =>
                    /\ o = createQuery(WithoutExtras(r), argumentOrder)
                    /\ WellFormedArgs(WithoutExtras(r)) =>
                          o.kind = "query" /\ Len(results[i].posted) = 1

\* getVersion with a scalar for `args` got its Query built and posted.
C18_Witness ==
    \E i \in Ids :
        /\ Decodes(requests[i])
        /\ NameOf(requests[i]) = "getVersion"
        /\ "args" \in DOMAIN requests[i].doc.map
        /\ requests[i].doc.map["args"].type = "Scalar"
        /\ results[i].outcome.constructed = <<[type |-> "GetVersionQuery"]>>
        /\ Pending(i) # {}

\* saveFilterState with a third value, and a Query built from the first two.
C18_ExtrasWitness ==
    \E i \in Ids :
        /\ Decodes(requests[i])
        /\ NameOf(requests[i]) = "saveFilterState"
        /\ HasExtras(requests[i])
        /\ results[i].outcome.kind = "query"
        /\ results[i].outcome.query.name = "myFilter"
        /\ results[i].outcome.query.state = TRUE

====
